---- MODULE Spec2Model ----
(***************************************************************************)
(* Model of the analysis-run orchestrator of the hint CLI                  *)
(* (packages/hint/src/lib/cli/analyze.ts).                                 *)
(*                                                                         *)
(* One run of the default export is a chain of steps separated by the      *)
(* points where the code awaits a collaborator: the entry (targets and     *)
(* configuration resolution), one step per call of getAnalyzer, the        *)
(* callbacks the engine invokes while webhint.analyze is pending, and the  *)
(* continuation after analyze settles.  The collaborators (createAnalyzer, *)
(* askQuestion, installPackages, the engine, Date.now) are the             *)
(* environment: their results are drawn with \E.  `calls` is the ordered   *)
(* list of collaborator calls made by the latest step.                     *)
(*                                                                         *)
(* SpecPrune applies pruneUserConfig, the projection of a configuration    *)
(* that the 'cli-analyze' event carries, to every shape of UserConfig.     *)
(* SpecExt is the telemetry module of the browser extension                *)
(* (src/unnamed/part_001): its store, its client handle and its exports.   *)
(***************************************************************************)
EXTENDS Integers, Sequences, FiniteSets, TLC

\* ------------------------------------------------------------------ bounds
MaxTargets == 2
MaxAttempts == 3
MaxClock == 3
MaxProblems == 1
MaxEvents == 4

\* ------------------------------------------------------------------ inputs
UrlOrder == <<"file:///a", "https://a", "https://b">>

Urls == {UrlOrder[i] : i \in 1..Len(UrlOrder)}

\* URL.protocol of a target
Protocol(u) == IF u = "file:///a" THEN "file:" ELSE "https:"

RECURSIVE Listing(_, _)
\* the urls whose index is in S, in the order of UrlOrder, from index i on
Listing(S, i) ==
    IF i > Len(UrlOrder) THEN <<>>
    ELSE IF i \in S THEN <<UrlOrder[i]>> \o Listing(S, i + 1)
    ELSE Listing(S, i + 1)

\* getAsUris(actions._): lists of distinct targets
TargetLists ==
    {Listing(S, 1) : S \in {T \in SUBSET (1..Len(UrlOrder)) : Cardinality(T) <= MaxTargets}}

Severities == {"error", "warning"}

RECURSIVE SeqsUpTo(_, _)
SeqsUpTo(S, n) ==
    IF n = 0 THEN {<<>>}
    ELSE SeqsUpTo(S, n - 1) \cup {Append(s, x) : s \in {t \in SeqsUpTo(S, n - 1) : Len(t) = n - 1}, x \in S}

\* the Problem[] of a target's end event, by severity
ProblemLists == SeqsUpTo(Severities, MaxProblems)

PackageLists == {<<>>, <<"hint-x">>}

\* HintResources carried by a ResourceError
ResourceSets == [missing : PackageLists, incompatible : PackageLists]

NoResources == [missing |-> <<>>, incompatible |-> <<>>]

ErrorStatuses == {"ConfigurationError", "ResourceError", "HintError", "ConnectorError", "Other"}

\* a value passed along with a call: nothing, or an array of names
NoData == [type |-> "undefined", items |-> <<>>, num |-> 0]

ArrayOf(names) == [type |-> "array", items |-> names, num |-> 0]

CallData(op, arg, ret, data) == [op |-> op, arg |-> arg, ret |-> ret, data |-> data]

Call(op, arg, ret) == CallData(op, arg, ret, NoData)

BoolStr(b) == IF b THEN "true" ELSE "false"

VARIABLES
    isCI,          \* is-ci, fixed for the process
    alreadyRun,    \* configStore 'run'
    insight,       \* persisted telemetry consent: "unset", "on", "off"
    phase,         \* "idle", "bootstrap", "analyzing", "done"
    targets,       \* getAsUris(actions._)
    debug,         \* actions.debug
    userConfig,    \* the configuration handed to createAnalyzer
    createCalls,   \* createAnalyzer calls of the pending chain of getAnalyzer calls
    cfgRecoveries, \* accepted default-configuration recoveries of that chain
    resRecoveries, \* completed install recoveries of that chain
    defaultPrompts,\* default-configuration prompts of that chain
    thrown,        \* the error that ended the run, if any
    clock,         \* Date.now(), counted from the invocation of the run
    scanStart,     \* Map<string, number> of getAnalyzeOptions
    engine,        \* per target, while analyze is pending: "pending", "started", "ended"
    startedAt,     \* per target: time of its own start event (0 = none)
    exitCode,
    errorSeen,     \* an end event of this run carried an error-severity problem
    formatOptions, \* the options webhint.format got in the latest step, if called
    gateCalls,     \* sendTelemetryIfEnabled calls of this run
    analyzeOutcome,\* "none", "pending", "resolved", "rejected"
    result,        \* "pending", "true", "false", "rejected"
    calls,         \* collaborator calls of the latest step, in order
    storeAtStart,  \* persisted state when the run was invoked
    caught,        \* the error the latest call of getAnalyzer caught, if any
    prunedConfig,  \* a UserConfig handed to pruneUserConfig
    payload,       \* the properties of the latest 'cli-analyze' event
    storage,       \* extension: the store behind getItem / setItem
    appInsights,   \* extension: the client handle, "null" or "client"
    initialised,   \* extension: setup, enable or disable has been called
    lastCall,      \* extension: the latest exported call and what it transmitted
    transmitted,   \* extension: events handed to the client so far
    optIn          \* extension: enable and disable calls so far (counted up to
                   \* 2 and 1) and 'f12-telemetry' events handed to the client

vars == <<isCI, alreadyRun, insight, phase, targets, debug, userConfig,
          createCalls, cfgRecoveries, resRecoveries, defaultPrompts, thrown,
          clock, scanStart, engine, startedAt, exitCode, errorSeen,
          formatOptions, gateCalls, analyzeOutcome, result, calls, storeAtStart,
          caught, prunedConfig, payload, storage, appInsights, initialised, lastCall,
          transmitted, optIn>>

\* the state of the orchestrator of analyze.ts
cliVars == <<isCI, alreadyRun, insight, phase, targets, debug, userConfig,
             createCalls, cfgRecoveries, resRecoveries, defaultPrompts, thrown,
             clock, scanStart, engine, startedAt, exitCode, errorSeen,
             formatOptions, gateCalls, analyzeOutcome, result, calls, storeAtStart,
             caught>>

\* the state of the projection of a configuration for telemetry
pruneVars == <<prunedConfig, payload>>

\* the state of the telemetry module of the browser extension
extVars == <<storage, appInsights, initialised, lastCall, transmitted, optIn>>

EmptyMap == [u \in {} |-> 0]

NoError == [status |-> "none", attempt |-> 0]
UsageError == [status |-> "UsageError", attempt |-> 0]
NoConfig == [origin |-> "none", extends |-> <<>>, formatters |-> <<>>]
\* the value of getUserConfig when a configuration file is found
FileConfig == [origin |-> "file", extends |-> <<"custom">>, formatters |-> <<>>]
NoFormat == [target |-> "", scanTime |-> 0, date |-> <<"ISO", 0>>]

\* no error caught by getAnalyzer
NoCaught == [status |-> "none", attempt |-> 0, resources |-> NoResources]

\* ---------------------------------------------- configurations for telemetry
\* a value of UserConfig.connector: undefined, a string (str), or a
\* ConnectorConfig object (name, options)
NoConnector == [type |-> "undefined", str |-> "", name |-> "", options |-> ""]

StringValue(str) == [type |-> "string", str |-> str, name |-> "", options |-> ""]

ConnectorShapes ==
    {NoConnector,
     StringValue("local"),
     [type |-> "object", str |-> "", name |-> "puppeteer", options |-> "connector-option"]}

HintIds == {"axe", "no-bom"}

\* a value of HintsConfigObject: a severity, or the tuple [severity, options]
HintValues ==
    {[type |-> "string", str |-> s, items |-> <<>>] : s \in Severities}
    \cup {[type |-> "tuple", str |-> "", items |-> <<s, "hint-option">>] : s \in Severities}

HintsConfigs == UNION {[D -> HintValues] : D \in SUBSET HintIds}

\* the UserConfig values pruneUserConfig is applied to
UserConfigs ==
    [browserslist : {<<>>, <<"defaults">>},
     connector : ConnectorShapes,
     extends : {<<>>, <<"web-recommended">>},
     formatters : {<<"html">>},
     hints : HintsConfigs,
     hintsTimeout : {1000},
     language : {"en"},
     parsers : {<<"html">>}]

NoUserConfig ==
    [browserslist |-> <<>>, connector |-> NoConnector, extends |-> <<>>,
     formatters |-> <<"html">>, hints |-> [id \in {} |-> 0], hintsTimeout |-> 1000,
     language |-> "en", parsers |-> <<"html">>]

\* no 'cli-analyze' event tracked yet
NoPayload == [event |-> "", properties |-> [ci |-> FALSE, previouslyRun |-> FALSE] @@ NoUserConfig]

\* ------------------------------------------------ extension telemetry store
\* the store is [telemetry, alreadyOptIn]: getItem(storageKey) as "undefined",
\* "true" or "false", and getItem(alreadyOptInKey) as a boolean
NoExtCall == [op |-> "", events |-> <<>>]

\* neither enable nor disable has been called
NoOptIn == [enables |-> 0, disables |-> 0, events |-> 0]

CliInit ==
    /\ isCI \in BOOLEAN
    /\ alreadyRun \in BOOLEAN
    /\ insight \in {"unset", "on", "off"}
    /\ phase = "idle"
    /\ targets = <<>>
    /\ debug = FALSE
    /\ userConfig = NoConfig
    /\ createCalls = 0
    /\ cfgRecoveries = 0
    /\ resRecoveries = 0
    /\ defaultPrompts = 0
    /\ thrown = NoError
    /\ clock = 1
    /\ scanStart = EmptyMap
    /\ engine = EmptyMap
    /\ startedAt = EmptyMap
    /\ exitCode = 0
    /\ errorSeen = FALSE
    /\ formatOptions = NoFormat
    /\ gateCalls = 0
    /\ analyzeOutcome = "none"
    /\ result = "pending"
    /\ calls = <<>>
    /\ storeAtStart = [alreadyRun |-> alreadyRun, insight |-> insight]
    /\ caught = NoCaught

\* no configuration is being projected
PruneIdle ==
    /\ prunedConfig = NoUserConfig
    /\ payload = NoPayload

\* the extension's telemetry module is not loaded
ExtIdle ==
    /\ storage = [telemetry |-> "undefined", alreadyOptIn |-> FALSE]
    /\ appInsights = "null"
    /\ initialised = FALSE
    /\ lastCall = NoExtCall
    /\ transmitted = 0
    /\ optIn = NoOptIn

Init == CliInit /\ PruneIdle /\ ExtIdle

\* ------------------------------------------------- configuration resolver
areFiles(ts) == \A i \in 1..Len(ts) : Protocol(ts[i]) = "file:"

anyFile(ts) == \E i \in 1..Len(ts) : Protocol(ts[i]) = "file:"

\* the guard of the throw in getDefaultConfiguration
mixedTargets(ts) == ~areFiles(ts) /\ anyFile(ts)

\* getDefaultConfiguration, past its throw
getDefaultConfiguration(ts) ==
    [origin |-> "default",
     extends |-> <<IF areFiles(ts) THEN "development" ELSE "web-recommended">>,
     formatters |-> IF isCI THEN <<"html", "stylish">> ELSE <<>>]

\* loadUserConfig: the user's configuration, else the default one, else the
\* error of getDefaultConfiguration
loadUserConfig(found, ts) ==
    IF found THEN [ok |-> TRUE, config |-> FileConfig, calls |-> <<>>]
    ELSE IF mixedTargets(ts)
    THEN [ok |-> FALSE, config |-> NoConfig,
          calls |-> <<Call("showDefaultMessage", "", "")>>]
    ELSE [ok |-> TRUE, config |-> getDefaultConfiguration(ts),
          calls |-> <<Call("showDefaultMessage", "", "")>>]

\* the entry of the default export without its test of targets.length
noTargetsUnchecked(ts) == FALSE

\* the test of targets.length at the entry of the default export
noTargets(ts) == Len(ts) = 0

RunReset ==
    /\ createCalls' = 0
    /\ cfgRecoveries' = 0
    /\ resRecoveries' = 0
    /\ defaultPrompts' = 0
    /\ scanStart' = EmptyMap
    /\ exitCode' = 0
    /\ errorSeen' = FALSE
    /\ formatOptions' = NoFormat
    /\ gateCalls' = 0
    /\ analyzeOutcome' = "none"
    /\ storeAtStart' = [alreadyRun |-> alreadyRun, insight |-> insight]

\* the default export, from its entry to its first call of getAnalyzer
analyzeCli(ts, dbg, found) ==
    /\ phase \in {"idle", "done"}
    /\ RunReset
    /\ targets' = ts
    /\ debug' = dbg
    /\ engine' = EmptyMap
    /\ startedAt' = EmptyMap
    /\ IF noTargets(ts)
       THEN /\ phase' = "done"
            /\ result' = "false"
            /\ userConfig' = NoConfig
            /\ thrown' = NoError
            /\ calls' = <<>>
       ELSE LET loaded == loadUserConfig(found, ts) IN
            /\ calls' = loaded.calls
            /\ userConfig' = loaded.config
            /\ IF loaded.ok
               THEN /\ phase' = "bootstrap"
                    /\ result' = "pending"
                    /\ thrown' = NoError
               ELSE /\ phase' = "done"
                    /\ result' = "rejected"
                    /\ thrown' = UsageError
    /\ clock' = 1
    /\ caught' = NoCaught
    /\ UNCHANGED <<isCI, alreadyRun, insight>>
    /\ UNCHANGED <<pruneVars, extVars>>

\* ------------------------------------------------------ telemetry transport
\* appInsights.isConfigured and appInsights.isEnabled over the persisted consent
isConfigured(ins) == ins # "unset"

isEnabled(ins) == ins = "on"

\* appInsights.trackEvent: the event leaves the process only while telemetry
\* is enabled
trackEvent(ins, name, data) ==
    CallData("trackEvent", name, IF isEnabled(ins) THEN "sent" ELSE "dropped", data)

\* ---------------------------------------------- configuration for telemetry
\* getHintsFromConfiguration and normalizeHints of @hint/utils: the hints of
\* the configuration as an object from hint id to severity or tuple
getHintsFromConfiguration(cfg) == cfg.hints

normalizeHints(hints) == hints

\* getHintsForTelemetry taking the last element of a tuple
getHintsForTelemetryWithOptions(hints) ==
    LET normalizedHints == normalizeHints(hints) IN
    [hintId \in DOMAIN normalizedHints |->
        IF normalizedHints[hintId].type = "string"
        THEN normalizedHints[hintId].str
        ELSE normalizedHints[hintId].items[Len(normalizedHints[hintId].items)]]

\* getHintsForTelemetry: the severity of every hint, a tuple cut to its
\* first element
getHintsForTelemetry(hints) ==
    LET normalizedHints == normalizeHints(hints) IN
    [hintId \in DOMAIN normalizedHints |->
        IF normalizedHints[hintId].type = "string"
        THEN normalizedHints[hintId].str
        ELSE normalizedHints[hintId].items[1]]

\* `connector ? connector.name || connector : undefined`: a string has no
\* name property and is kept, an object gives its name if it has one
pruneConnector(connector) ==
    IF connector.type = "undefined" THEN NoConnector
    ELSE IF connector.name # "" THEN StringValue(connector.name)
    ELSE connector

pruneUserConfig(cfg) ==
    [browserslist |-> cfg.browserslist,
     connector |-> pruneConnector(cfg.connector),
     extends |-> cfg.extends,
     formatters |-> cfg.formatters,
     hints |-> getHintsForTelemetry(getHintsFromConfiguration(cfg)),
     hintsTimeout |-> cfg.hintsTimeout,
     language |-> cfg.language,
     parsers |-> cfg.parsers]

\* the properties of the 'cli-analyze' event
analyzeProperties(cfg, ci, ran) ==
    [ci |-> ci, previouslyRun |-> ran] @@ pruneUserConfig(cfg)

\* the last statement of sendTelemetryIfEnabled, reached with telemetry enabled
trackAnalyze ==
    /\ isEnabled(insight)
    /\ payload.event = ""
    /\ payload' = [event |-> "cli-analyze",
                   properties |-> analyzeProperties(prunedConfig, isCI, alreadyRun)]
    /\ UNCHANGED <<prunedConfig, cliVars, extVars>>

\* ------------------------------------------------------ analyzer bootstrap
\* askUserToUseDefaultConfiguration without the test of the confirmation
askUserToUseDefaultConfigurationUnasked(ts, answer) ==
    [config |-> IF ~mixedTargets(ts) THEN getDefaultConfiguration(ts) ELSE NoConfig,
     threw |-> mixedTargets(ts),
     calls |-> <<Call("askQuestion", "default", BoolStr(answer)),
                 Call("showDefaultMessage", "", "")>>]

\* askUserToUseDefaultConfiguration: the prompt, then getDefaultConfiguration
askUserToUseDefaultConfiguration(ts, answer) ==
    [config |-> IF answer /\ ~mixedTargets(ts) THEN getDefaultConfiguration(ts) ELSE NoConfig,
     threw |-> answer /\ mixedTargets(ts),
     calls |-> <<Call("askQuestion", "default", BoolStr(answer))>>
               \o (IF answer THEN <<Call("showDefaultMessage", "", "")>> ELSE <<>>)]

\* an event for every list, empty or not
tracksListAlways(list) == TRUE

\* the tests `resources.missing.length > 0` and `resources.incompatible.length > 0`
tracksList(list) == Len(list) > 0

\* the condition of askToInstallPackages without the result of the second install
installedMissingOnly(answer, okMissing, okIncompatible) ==
    answer /\ okMissing

\* the condition of askToInstallPackages, evaluated left to right
installedAll(answer, okMissing, okIncompatible) ==
    answer /\ okMissing /\ okIncompatible

askToInstallPackages(resources, answer, okMissing, okIncompatible) ==
    [installed |-> installedAll(answer, okMissing, okIncompatible),
     calls |->
        (IF tracksList(resources.missing)
         THEN <<trackEvent(insight, "cli-missing", ArrayOf(resources.missing))>> ELSE <<>>)
        \o (IF tracksList(resources.incompatible)
            THEN <<trackEvent(insight, "cli-incompatible", ArrayOf(resources.incompatible))>>
            ELSE <<>>)
        \o <<Call("askQuestion", "install", BoolStr(answer))>>
        \o (IF answer
            THEN <<Call("installPackages", "missing", BoolStr(okMissing))>> ELSE <<>>)
        \o (IF answer /\ okMissing
            THEN <<Call("installPackages", "incompatible", BoolStr(okIncompatible))>>
            ELSE <<>>)]

\* getAnalyzer rethrows (or getDefaultConfiguration throws) and the catch of
\* the default export returns false
BootstrapFails(e, cs) ==
    /\ phase' = "done"
    /\ result' = "false"
    /\ thrown' = e
    /\ calls' = cs
    /\ UNCHANGED <<userConfig, cfgRecoveries, resRecoveries, analyzeOutcome,
                   engine, startedAt>>

\* getAnalyzer calls itself: the next createAnalyzer is the next step
BootstrapRetries(config, cfg, res, cs) ==
    /\ createCalls + 1 < MaxAttempts
    /\ phase' = "bootstrap"
    /\ userConfig' = config
    /\ cfgRecoveries' = cfgRecoveries + cfg
    /\ resRecoveries' = resRecoveries + res
    /\ calls' = cs
    /\ UNCHANGED <<result, thrown, analyzeOutcome, engine, startedAt>>

\* the test of the catch of getAnalyzer that treats every status as a
\* ResourceError unless it is a ConfigurationError
isResourceErrorOrFatal(status) == status # "ConfigurationError"

\* the test `e.status === 'ResourceError'` of the catch of getAnalyzer
isResourceError(status) == status = "ResourceError"

\* one call of getAnalyzer: createAnalyzer returns (status "ok") or throws
getAnalyzer(status, resources, answer, okMissing, okIncompatible) ==
    LET e == [status |-> status, attempt |-> createCalls + 1]
        \* the error as caught, with the HintResources it carries
        caughtError == [status |-> status, attempt |-> createCalls + 1,
                        resources |-> resources]
        create == <<Call("createAnalyzer", userConfig.origin, status)>>
    IN
    /\ phase = "bootstrap"
    /\ createCalls < MaxAttempts
    /\ CASE status = "ok" ->
              \* the chain of getAnalyzer calls returns: its counters are dropped
              /\ phase' = "analyzing"
              /\ analyzeOutcome' = "pending"
              /\ calls' = create
              /\ createCalls' = 0
              /\ defaultPrompts' = 0
              /\ cfgRecoveries' = 0
              /\ resRecoveries' = 0
              /\ engine' = [u \in {targets[i] : i \in 1..Len(targets)} |-> "pending"]
              /\ startedAt' = [u \in {targets[i] : i \in 1..Len(targets)} |-> 0]
              /\ caught' = NoCaught
              /\ UNCHANGED <<userConfig, result, thrown>>
         [] status = "ConfigurationError" ->
              LET asked == askUserToUseDefaultConfiguration(targets, answer) IN
              /\ createCalls' = createCalls + 1
              /\ defaultPrompts' = defaultPrompts + 1
              /\ caught' = caughtError
              /\ IF asked.threw THEN BootstrapFails(UsageError, create \o asked.calls)
                 ELSE IF asked.config = NoConfig THEN BootstrapFails(e, create \o asked.calls)
                 ELSE BootstrapRetries(asked.config, 1, 0, create \o asked.calls)
         [] isResourceError(status) ->
              LET asked == askToInstallPackages(resources, answer, okMissing, okIncompatible) IN
              /\ createCalls' = createCalls + 1
              /\ defaultPrompts' = defaultPrompts
              /\ caught' = caughtError
              /\ IF ~asked.installed THEN BootstrapFails(e, create \o asked.calls)
                 ELSE BootstrapRetries(userConfig, 0, 1, create \o asked.calls)
         [] OTHER ->
              /\ createCalls' = createCalls + 1
              /\ defaultPrompts' = defaultPrompts
              /\ caught' = caughtError
              /\ BootstrapFails(e, create \o <<Call("logger.error", status, "")>>)
    /\ UNCHANGED <<isCI, alreadyRun, insight, targets, debug, clock, scanStart,
                   exitCode, errorSeen, formatOptions, gateCalls, storeAtStart>>
    /\ UNCHANGED <<pruneVars, extVars>>

\* ---------------------------------------------------------- telemetry gate
\* the branch that asks the user, without the test of isCI before it
promptsForTelemetryUnderCI(configured, ci, ran) == ~configured /\ ran

\* the branch that asks the user, without the test of alreadyRun
promptsForTelemetryOnFirstRun(configured, ci, ran) == ~configured /\ ~ci

\* the branch of sendTelemetryIfEnabled that asks the user
promptsForTelemetry(configured, ci, ran) == ~configured /\ ~ci /\ ran

\* askForTelemetryConfirmation without its calls of enable and disable
askForTelemetryConfirmationUnrecorded(answer) ==
    [enabled |-> answer,
     insight |-> insight,
     calls |-> <<Call("showTelemetryMessage", "", ""),
                 Call("askQuestion", "telemetry", BoolStr(answer))>>]

\* askForTelemetryConfirmation, with the user's answer
askForTelemetryConfirmation(answer) ==
    [enabled |-> answer,
     insight |-> IF answer THEN "on" ELSE "off",
     calls |-> <<Call("showTelemetryMessage", "", ""),
                 Call("askQuestion", "telemetry", BoolStr(answer)),
                 Call(IF answer THEN "appInsights.enable" ELSE "appInsights.disable", "", "")>>]

\* the marker written whatever it held, with the negation of what was read
markRunToggled(ran) == ~ran

\* configStore 'run' after `if (!alreadyRun) configStore.set(alreadyRunKey, true)`
markRun(ran) == IF ~ran THEN TRUE ELSE ran

sendTelemetryIfEnabled(answer) ==
    LET telemetryConfigured == isConfigured(insight)
        ran == alreadyRun
        prompts == promptsForTelemetry(telemetryConfigured, isCI, ran)
        asked == askForTelemetryConfirmation(answer)
        telemetryEnabled ==
            IF telemetryConfigured THEN isEnabled(insight)
            ELSE IF isCI THEN FALSE
            ELSE IF prompts THEN asked.enabled
            ELSE isEnabled(insight)
        \* the persisted consent once the prompt, if any, was answered
        consent == IF prompts THEN asked.insight ELSE insight
    IN
    [alreadyRun |-> markRun(ran),
     insight |-> consent,
     calls |->
        (IF ~ran THEN <<Call("configStore.set", "run", "true")>> ELSE <<>>)
        \o (IF ~telemetryConfigured /\ isCI
            THEN <<Call("showCITelemetryMessage", "", "")>> ELSE <<>>)
        \o (IF prompts THEN asked.calls ELSE <<>>)
        \o (IF prompts /\ asked.enabled
            THEN <<trackEvent(consent, "cli-telemetry", NoData)>> ELSE <<>>)
        \o (IF telemetryEnabled
            THEN <<trackEvent(consent, "cli-analyze", NoData)>> ELSE <<>>)]

\* ------------------------------------------------- run & progress reporter
hasError(reports) == \E i \in 1..Len(reports) : reports[i] = "error"

\* endSpinner with the test of actions.debug inverted
endSpinnerInverted(method) ==
    IF debug THEN <<Call("spinner", method, "")>> ELSE <<>>

endSpinner(method) ==
    IF ~debug THEN <<Call("spinner", method, "")>> ELSE <<>>

\* one timer shared by all targets instead of an entry per url
scanStartSetShared(m, url, t) ==
    [k \in DOMAIN m \cup {url} |-> t]

\* scanStart.set(url, t)
scanStartSet(m, url, t) ==
    [k \in DOMAIN m \cup {url} |-> IF k = url THEN t ELSE m[k]]

\* scanStart.get(url) || 0
scanStartGet(m, url) ==
    IF url \in DOMAIN m /\ m[url] # 0 THEN m[url] ELSE 0

\* new Date(t).toISOString()
toISOString(t) == <<"ISO", t>>

\* exitCode assigned from the latest target alone
exitCodeOfLastTarget(code, problems) == IF hasError(problems) THEN 1 ELSE 0

\* exitCode after the test of hasError in targetEndCallback
exitCodeAfter(code, problems) == IF hasError(problems) THEN 1 ELSE code

targetStartCallback(u, now) ==
    /\ phase = "analyzing"
    /\ u \in DOMAIN engine
    /\ engine[u] = "pending"
    /\ calls' = (IF ~debug THEN <<Call("spinner", "start", "")>> ELSE <<>>)
    /\ scanStart' = scanStartSet(scanStart, u, now)
    /\ engine' = [engine EXCEPT ![u] = "started"]
    /\ startedAt' = [startedAt EXCEPT ![u] = now]
    /\ clock' = now
    /\ formatOptions' = NoFormat
    /\ UNCHANGED <<isCI, alreadyRun, insight, phase, targets, debug, userConfig,
                   createCalls, cfgRecoveries, resRecoveries, defaultPrompts,
                   thrown, exitCode, errorSeen, gateCalls, analyzeOutcome,
                   result, storeAtStart, caught>>
    /\ UNCHANGED <<pruneVars, extVars>>

updateCallback(message) ==
    /\ phase = "analyzing"
    /\ ~debug
    /\ calls' = <<Call("spinner.text", message, "")>>
    /\ formatOptions' = NoFormat
    /\ UNCHANGED <<isCI, alreadyRun, insight, phase, targets, debug, userConfig,
                   createCalls, cfgRecoveries, resRecoveries, defaultPrompts,
                   thrown, clock, scanStart, engine, startedAt, exitCode,
                   errorSeen, gateCalls, analyzeOutcome, result, storeAtStart, caught>>
    /\ UNCHANGED <<pruneVars, extVars>>

\* targetEndCallback, its effect on everything but the count of gate calls
targetEnds(u, now, problems) ==
    LET start == scanStartGet(scanStart, u)
        code == exitCodeAfter(exitCode, problems)
    IN
    /\ phase = "analyzing"
    /\ u \in DOMAIN engine
    /\ engine[u] # "ended"
    /\ exitCode' = code
    /\ errorSeen' = (errorSeen \/ \E i \in 1..Len(problems) : problems[i] = "error")
    /\ calls' = endSpinner(IF code # 0 THEN "fail" ELSE "succeed")
                \o <<Call("format", u, "")>>
    /\ formatOptions' = [target |-> u, scanTime |-> now - start,
                         date |-> toISOString(start)]
    /\ engine' = [engine EXCEPT ![u] = "ended"]
    /\ clock' = now
    /\ UNCHANGED <<isCI, alreadyRun, insight, phase, targets, debug, userConfig,
                   createCalls, cfgRecoveries, resRecoveries, defaultPrompts,
                   thrown, scanStart, startedAt, analyzeOutcome, result,
                   storeAtStart, caught>>
    /\ UNCHANGED <<pruneVars, extVars>>

\* a targetEndCallback that also runs the telemetry gate
targetEndCallbackWithGate(u, now, problems) ==
    targetEnds(u, now, problems) /\ gateCalls' = gateCalls + 1

targetEndCallback(u, now, problems) ==
    targetEnds(u, now, problems) /\ gateCalls' = gateCalls

\* the run returns: scanStart goes out of scope and the engine is finished
RunStateDropped ==
    /\ scanStart' = EmptyMap
    /\ engine' = EmptyMap
    /\ startedAt' = EmptyMap
    /\ clock' = 1

\* webhint.analyze resolves once every target has ended
analyzeCompleted == \A u \in DOMAIN engine : engine[u] = "ended"

\* the default export after webhint.analyze resolved: the telemetry gate,
\* then the exit status
analyzeResolved(answer) ==
    LET gate == sendTelemetryIfEnabled(answer) IN
    /\ phase = "analyzing"
    /\ analyzeCompleted
    /\ analyzeOutcome' = "resolved"
    /\ gateCalls' = gateCalls + 1
    /\ alreadyRun' = gate.alreadyRun
    /\ insight' = gate.insight
    /\ calls' = gate.calls
    /\ phase' = "done"
    /\ result' = BoolStr(exitCode = 0)
    /\ formatOptions' = NoFormat
    /\ RunStateDropped
    /\ UNCHANGED <<isCI, targets, debug, userConfig, createCalls, cfgRecoveries,
                   resRecoveries, defaultPrompts, thrown, exitCode, errorSeen,
                   storeAtStart, caught>>
    /\ UNCHANGED <<pruneVars, extVars>>

AnalyzeError == [status |-> "AnalyzeError", attempt |-> 0]

\* the default export after webhint.analyze rejected: the catch block
analyzeRejected ==
    /\ phase = "analyzing"
    /\ analyzeOutcome' = "rejected"
    /\ exitCode' = 1
    /\ calls' = endSpinner("fail")
    /\ thrown' = AnalyzeError
    /\ phase' = "done"
    /\ result' = BoolStr(exitCode' = 0)
    /\ formatOptions' = NoFormat
    /\ RunStateDropped
    /\ UNCHANGED <<isCI, alreadyRun, insight, targets, debug, userConfig,
                   createCalls, cfgRecoveries, resRecoveries, defaultPrompts,
                   errorSeen, gateCalls, storeAtStart, caught>>
    /\ UNCHANGED <<pruneVars, extVars>>

\* ------------------------------------------------------------ specification
Next ==
    \/ \E ts \in TargetLists, dbg \in BOOLEAN, found \in BOOLEAN :
          analyzeCli(ts, dbg, found)
    \/ \E status \in {"ok"} \cup ErrorStatuses :
          \E resources \in (IF status = "ResourceError" THEN ResourceSets ELSE {NoResources}),
             answer \in (IF status \in {"ConfigurationError", "ResourceError"}
                         THEN BOOLEAN ELSE {FALSE}),
             okMissing \in (IF status = "ResourceError" THEN BOOLEAN ELSE {FALSE}),
             okIncompatible \in (IF status = "ResourceError" THEN BOOLEAN ELSE {FALSE}) :
             getAnalyzer(status, resources, answer, okMissing, okIncompatible)
    \/ \E u \in Urls, now \in clock..MaxClock : targetStartCallback(u, now)
    \/ updateCallback("update")
    \/ \E u \in Urls, now \in clock..MaxClock, problems \in ProblemLists :
          targetEndCallback(u, now, problems)
    \/ \E answer \in BOOLEAN : analyzeResolved(answer)
    \/ analyzeRejected

Spec == Init /\ [][Next]_vars

\* pruneUserConfig applied to every shape of user configuration
InitPrune ==
    /\ CliInit
    /\ insight = "on"
    /\ prunedConfig \in UserConfigs
    /\ payload = NoPayload
    /\ ExtIdle

NextPrune == trackAnalyze

SpecPrune == InitPrune /\ [][NextPrune]_vars

\* ------------------------------------- telemetry of the browser extension
\* `!s.getItem(key)` is false for the stored value true only
truthy(value) == value = "true"

\* setup creating the client whatever the store holds
setupHandleAlways(store) == "client"

\* the handle setup leaves in appInsights for a store
setupHandle(store) ==
    IF ~truthy(store.telemetry) THEN "null" ELSE "client"

\* trackEvent without its test of appInsights
extTrackEventUnguarded(handle, name) == <<name>>

\* trackEvent: the events handed to appInsights.track
extTrackEvent(handle, name) ==
    IF handle = "null" THEN <<>> ELSE <<name>>

\* the stores the exported functions can leave behind for a later session
PersistedStores ==
    {[telemetry |-> "undefined", alreadyOptIn |-> FALSE],
     [telemetry |-> "false", alreadyOptIn |-> FALSE],
     [telemetry |-> "false", alreadyOptIn |-> TRUE],
     [telemetry |-> "true", alreadyOptIn |-> TRUE]}

\* showOptIn: the user has not answered yet
showOptIn(store) == store.telemetry = "undefined"

\* enable without its test of alreadyOptInKey
firstOptInAlways(store) == TRUE

\* the test `!s.getItem(alreadyOptInKey)` of enable
firstOptIn(store) == ~store.alreadyOptIn

\* the number of 'f12-telemetry' events among the events of a call
OptInEvents(events) == Len(SelectSeq(events, LAMBDA name : name = "f12-telemetry"))

setup ==
    /\ appInsights' = setupHandle(storage)
    /\ initialised' = TRUE
    /\ lastCall' = [op |-> "setup", events |-> <<>>]
    /\ UNCHANGED <<storage, transmitted, optIn, cliVars, pruneVars>>

enable ==
    LET stored == [storage EXCEPT !.telemetry = "true"]
        handle == setupHandle(stored)
        events == IF firstOptIn(stored)
                  THEN extTrackEvent(handle, "f12-telemetry") ELSE <<>>
    IN
    /\ transmitted + Len(events) <= MaxEvents
    /\ storage' = [stored EXCEPT !.alreadyOptIn = TRUE]
    /\ appInsights' = handle
    /\ initialised' = TRUE
    /\ lastCall' = [op |-> "enable", events |-> events]
    /\ transmitted' = transmitted + Len(events)
    /\ optIn' = [optIn EXCEPT !.enables = IF @ < 2 THEN @ + 1 ELSE @,
                              !.events = @ + OptInEvents(events)]
    /\ UNCHANGED <<cliVars, pruneVars>>

disable ==
    LET stored == [storage EXCEPT !.telemetry = "false"] IN
    /\ storage' = stored
    /\ appInsights' = setupHandle(stored)
    /\ initialised' = TRUE
    /\ lastCall' = [op |-> "disable", events |-> <<>>]
    /\ optIn' = [optIn EXCEPT !.disables = 1]
    /\ UNCHANGED <<transmitted, cliVars, pruneVars>>

\* an exported track function: one call of trackEvent
trackCall(op, name) ==
    LET events == extTrackEvent(appInsights, name) IN
    /\ transmitted + Len(events) <= MaxEvents
    /\ lastCall' = [op |-> op, events |-> events]
    /\ transmitted' = transmitted + Len(events)
    /\ UNCHANGED <<storage, appInsights, initialised, optIn, cliVars, pruneVars>>

trackCancel == trackCall("trackCancel", "f12-cancel")

trackError == trackCall("trackError", "f12-error")

trackFinish == trackCall("trackFinish", "f12-finish")

trackShow == trackCall("trackShow", "f12-show")

trackStart == trackCall("trackStart", "f12-start")

trackTimeout == trackCall("trackTimeout", "f12-timeout")

TrackOps ==
    {"trackCancel", "trackError", "trackFinish", "trackShow", "trackStart", "trackTimeout"}

\* the module is loaded over a store an earlier session may have written
InitExt ==
    /\ CliInit
    /\ isCI = FALSE
    /\ alreadyRun = FALSE
    /\ insight = "unset"
    /\ PruneIdle
    /\ storage \in PersistedStores
    /\ appInsights = "null"
    /\ initialised = FALSE
    /\ lastCall = NoExtCall
    /\ transmitted = 0
    /\ optIn = NoOptIn

NextExt ==
    \/ setup
    \/ enable
    \/ disable
    \/ trackCancel
    \/ trackError
    \/ trackFinish
    \/ trackShow
    \/ trackStart
    \/ trackTimeout

SpecExt == InitExt /\ [][NextExt]_vars

\* ------------------------------------------------------------------ claims

\* calls of the latest step
Called(op, arg) == \E i \in 1..Len(calls) : calls[i].op = op /\ calls[i].arg = arg

CalledWith(op, arg, ret) ==
    \E i \in 1..Len(calls) : calls[i] = Call(op, arg, ret)

CountCalls(op) == Len(SelectSeq(calls, LAMBDA c : c.op = op))

\* C1: getAnalyzer ends after a bounded number of recoveries per error
\* kind: in one chain of getAnalyzer calls there is at most one accepted
\* default-configuration recovery and at most one completed install
\* recovery, however often createAnalyzer repeats the same error.
C1_BoundedRecoveries ==
    /\ cfgRecoveries <= 1
    /\ resRecoveries <= 1

\* C2: after the user accepted the default-configuration prompt, the retry
\* does not ask the default-configuration prompt again: one chain of
\* getAnalyzer calls asks it at most once.
C2_NoSecondDefaultPrompt == defaultPrompts <= 1

InstallFailed ==
    \/ CalledWith("installPackages", "missing", "false")
    \/ CalledWith("installPackages", "incompatible", "false")

\* C3: when createAnalyzer threw a ResourceError and the install of the
\* missing or of the incompatible packages failed, that call of getAnalyzer
\* made one createAnalyzer call and none after the install, the error thrown
\* is the ResourceError of that createAnalyzer call, and the run is over.
C3_InstallFailureIsFatal ==
    InstallFailed =>
        /\ phase = "done"
        /\ result = "false"
        /\ thrown = [status |-> "ResourceError", attempt |-> createCalls]
        /\ CountCalls("createAnalyzer") = 1
        /\ calls[1] = Call("createAnalyzer", userConfig.origin, "ResourceError")
        /\ calls[Len(calls)].op = "installPackages"

C3_Witness ==
    /\ CalledWith("installPackages", "missing", "true")
    /\ CalledWith("installPackages", "incompatible", "false")
    /\ phase = "done"
    /\ thrown.status = "ResourceError"
    /\ createCalls = 2

\* C4: the scan time and the scan-start date handed to format for a target
\* whose start event was received are the end time minus the time of that
\* target's own start event, and the date of that time, whatever the other
\* targets did in between.
C4_OwnStartTime ==
    (formatOptions.target # "" /\ startedAt[formatOptions.target] # 0) =>
        /\ formatOptions.scanTime = clock - startedAt[formatOptions.target]
        /\ formatOptions.date = toISOString(startedAt[formatOptions.target])

\* two targets, the first started ends last and the start times differ
C4_Witness ==
    /\ formatOptions.target = "https://a"
    /\ "https://b" \in DOMAIN engine
    /\ engine["https://b"] = "ended"
    /\ startedAt["https://a"] # 0
    /\ startedAt["https://a"] < startedAt["https://b"]
    /\ formatOptions.scanTime = clock - startedAt["https://a"]

\* C5: a run returns false when an end event of one of its targets carried
\* an error-severity problem, and when webhint.analyze threw.
C5_ErrorFailsRun ==
    (phase = "done" /\ (errorSeen \/ analyzeOutcome = "rejected")) =>
        result = "false"

C5_Witness ==
    /\ phase = "done"
    /\ analyzeOutcome = "resolved"
    /\ errorSeen
    /\ Len(targets) = 2
    /\ result = "false"

\* C6: when the run started with alreadyRun unset, the telemetry gate does
\* not ask the opt-in question.
C6_FirstRunNeverPrompts ==
    Called("askQuestion", "telemetry") => storeAtStart.alreadyRun

\* the gate ran on a first run, outside CI, with consent never configured
C6_Witness ==
    /\ phase = "done"
    /\ gateCalls = 1
    /\ ~storeAtStart.alreadyRun
    /\ storeAtStart.insight = "unset"
    /\ ~isCI
    /\ alreadyRun
    /\ ~Called("askQuestion", "telemetry")

\* C7: a run with zero targets returns failure and does nothing else: no
\* configuration is resolved, createAnalyzer is not called, no collaborator
\* (prompt, telemetry, message) is called, the telemetry gate does not run
\* and the persisted alreadyRun / consent are what they were at the start.
C7_ZeroTargetsNoEffect ==
    (phase = "done" /\ Len(targets) = 0) =>
        /\ result = "false"
        /\ userConfig = NoConfig
        /\ createCalls = 0
        /\ analyzeOutcome = "none"
        /\ gateCalls = 0
        /\ calls = <<>>
        /\ alreadyRun = storeAtStart.alreadyRun
        /\ insight = storeAtStart.insight

C7_Witness == phase = "done" /\ Len(targets) = 0 /\ result = "false"

\* C8: when the target list holds both a file: target and a target of
\* another scheme, loadUserConfig fails with the usage error and yields no
\* configuration, whether or not a user configuration file is found.
C8_MixedTargetsRejected ==
    mixedTargets(targets) =>
        /\ phase = "done"
        /\ result = "rejected"
        /\ thrown = UsageError
        /\ userConfig = NoConfig

\* C9: the telemetry gate has not run while webhint.analyze is pending, that
\* is while a target's end event may still come, and a run whose analyze
\* call resolved has run it exactly once.
C9_GateOncePerRun ==
    /\ phase = "analyzing" => gateCalls = 0
    /\ (phase = "done" /\ analyzeOutcome = "resolved") => gateCalls = 1

C9_Witness ==
    /\ phase = "done"
    /\ analyzeOutcome = "resolved"
    /\ Len(targets) = 2
    /\ gateCalls = 1

TelemetryEventTracked ==
    \/ Called("trackEvent", "cli-analyze")
    \/ Called("trackEvent", "cli-telemetry")

\* C10: when webhint.analyze throws, the run returns false, the spinner is
\* ended with 'fail', the telemetry gate does not run, and no step of the
\* run tracks 'cli-analyze' or 'cli-telemetry'.
C10_AnalyzeThrows ==
    /\ (phase = "done" /\ analyzeOutcome = "rejected") =>
          /\ result = "false"
          /\ calls = <<Call("spinner", "fail", "")>>
          /\ gateCalls = 0
    /\ TelemetryEventTracked => analyzeOutcome = "resolved"

\* C10 as amended: the spinner is ended with 'fail' unless actions.debug is
\* set, and then the spinner is not called at all.
C10_AnalyzeThrowsSpinnerUnlessDebug ==
    /\ (phase = "done" /\ analyzeOutcome = "rejected") =>
          /\ result = "false"
          /\ calls = (IF debug THEN <<>> ELSE <<Call("spinner", "fail", "")>>)
          /\ gateCalls = 0
    /\ TelemetryEventTracked => analyzeOutcome = "resolved"

\* analyze threw after a target ended without errors
C10_Witness ==
    /\ phase = "done"
    /\ analyzeOutcome = "rejected"
    /\ ~errorSeen
    /\ ~debug
    /\ result = "false"
    /\ calls = <<Call("spinner", "fail", "")>>

\* some call of the latest step asked the user a question
Prompted == \E i \in 1..Len(calls) : calls[i].op = "askQuestion"

\* C11: under CI no step of a run asks an interactive prompt: neither the
\* default-configuration prompt, nor the install prompt, nor the telemetry
\* opt-in prompt.
C11_NoPromptUnderCI == isCI => ~Prompted

\* C13: when createAnalyzer threw a HintError or a ConnectorError, that call
\* of getAnalyzer rethrows the error it caught, asks no prompt, attempts no
\* installation and makes no further createAnalyzer call; the run returns
\* false and analyze is never called.
C13_FatalErrorRethrown ==
    caught.status \in {"HintError", "ConnectorError"} =>
        /\ phase = "done"
        /\ result = "false"
        /\ thrown = [status |-> caught.status, attempt |-> caught.attempt]
        /\ ~Prompted
        /\ CountCalls("installPackages") = 0
        /\ CountCalls("createAnalyzer") = 1
        /\ createCalls = caught.attempt
        /\ analyzeOutcome = "none"
        /\ gateCalls = 0

\* a HintError caught at the second createAnalyzer call, after a recovery
C13_Witness ==
    /\ caught.status = "HintError"
    /\ caught.attempt = 2
    /\ phase = "done"
    /\ calls[1] = Call("createAnalyzer", userConfig.origin, "HintError")

DeclinedDefault == CalledWith("askQuestion", "default", "false")

\* C14: when createAnalyzer threw a ConfigurationError and the user declined
\* the default-configuration prompt, getAnalyzer throws the ConfigurationError
\* it caught, getDefaultConfiguration is not called, the configuration is
\* left as it was and no further createAnalyzer call is made.
C14_DeclinedDefaultRethrows ==
    DeclinedDefault =>
        /\ caught.status = "ConfigurationError"
        /\ phase = "done"
        /\ result = "false"
        /\ thrown = [status |-> "ConfigurationError", attempt |-> caught.attempt]
        /\ ~Called("showDefaultMessage", "")
        /\ CountCalls("createAnalyzer") = 1
        /\ createCalls = caught.attempt
        /\ calls[1] = Call("createAnalyzer", userConfig.origin, "ConfigurationError")
        /\ calls[Len(calls)].op = "askQuestion"

\* the prompt declined for the user's own configuration file
C14_Witness ==
    /\ DeclinedDefault
    /\ userConfig = FileConfig
    /\ thrown.status = "ConfigurationError"

InstallsCompleted ==
    /\ CalledWith("askQuestion", "install", "true")
    /\ CalledWith("installPackages", "missing", "true")
    /\ CalledWith("installPackages", "incompatible", "true")

\* C15: after a ResourceError, getAnalyzer calls itself again exactly when
\* the user accepted the install prompt and the install of the missing and
\* then of the incompatible packages both returned true; the retry gets the
\* configuration of the failed attempt; after a refusal no install is
\* attempted, and after a failed install of the missing packages the
\* incompatible ones are not installed.
C15_RetryIffInstalled ==
    caught.status = "ResourceError" =>
        /\ phase \in {"bootstrap", "done"}
        /\ (phase = "bootstrap") <=> InstallsCompleted
        /\ phase = "bootstrap" =>
              /\ calls[1] = Call("createAnalyzer", userConfig.origin, "ResourceError")
              /\ createCalls = caught.attempt
        /\ CalledWith("askQuestion", "install", "false") => CountCalls("installPackages") = 0
        /\ CalledWith("installPackages", "missing", "false") =>
              ~Called("installPackages", "incompatible")

\* a retry is pending after both installs succeeded
C15_Witness ==
    /\ caught.status = "ResourceError"
    /\ phase = "bootstrap"
    /\ InstallsCompleted
    /\ resRecoveries = 1

\* a number passed along with a call
NumberOf(n) == [type |-> "number", items |-> <<>>, num |-> n]

\* the list of the caught HintResources an event is about
ListOf(name) ==
    IF name = "cli-missing" THEN caught.resources.missing
    ELSE caught.resources.incompatible

CountEvents(name) ==
    Len(SelectSeq(calls, LAMBDA c : c.op = "trackEvent" /\ c.arg = name))

EventsBeforeInstalls ==
    \A i, j \in 1..Len(calls) :
        (calls[i].op = "trackEvent" /\ calls[j].op \in {"askQuestion", "installPackages"})
            => i < j

OneEventPerList ==
    \A name \in {"cli-missing", "cli-incompatible"} :
        CountEvents(name) = IF Len(ListOf(name)) > 0 THEN 1 ELSE 0

\* C16 as stated: after a ResourceError the events 'cli-missing' and
\* 'cli-incompatible' are tracked before the prompt and before any install,
\* one per non-empty list and none for an empty list, and each carries the
\* count of the packages of its list.
C16_EventsCarryCounts ==
    caught.status = "ResourceError" =>
        /\ EventsBeforeInstalls
        /\ OneEventPerList
        /\ \A i \in 1..Len(calls) :
              calls[i].op = "trackEvent" =>
                  calls[i].data = NumberOf(Len(ListOf(calls[i].arg)))

\* C16 amended: after a ResourceError the events 'cli-missing' and
\* 'cli-incompatible' are tracked before the prompt and before any install,
\* one per non-empty list and none for an empty list, and each carries the
\* array of the package names of its list, not a count.
C16_EventsCarryNames ==
    caught.status = "ResourceError" =>
        /\ EventsBeforeInstalls
        /\ OneEventPerList
        /\ \A i \in 1..Len(calls) :
              calls[i].op = "trackEvent" =>
                  calls[i].data = ArrayOf(ListOf(calls[i].arg))

\* one missing package, none incompatible, and the install was attempted
C16_Witness ==
    /\ caught.status = "ResourceError"
    /\ caught.resources = [missing |-> <<"hint-x">>, incompatible |-> <<>>]
    /\ CountEvents("cli-missing") = 1
    /\ CalledWith("installPackages", "missing", "true")

\* the events of the latest step, in order, and those the transport sent
TrackedEvents == SelectSeq(calls, LAMBDA c : c.op = "trackEvent")

SentEvents == SelectSeq(TrackedEvents, LAMBDA c : c.ret = "sent")

\* the run began with no recorded consent, outside CI, after an earlier run
PromptDue ==
    /\ ~isCI
    /\ storeAtStart.insight = "unset"
    /\ storeAtStart.alreadyRun

\* the telemetry gate of this run has returned
GateReturned == phase = "done" /\ gateCalls = 1

\* C17: in a run that began with no recorded consent, outside CI and after
\* an earlier run, no event is sent before the telemetry gate; the gate asks
\* the user exactly once and records the answer; after a yes the events sent
\* are 'cli-telemetry' and then 'cli-analyze', each once; after a no, no
\* event is tracked at all.
C17_OptInEventFirst ==
    PromptDue =>
        /\ gateCalls = 0 => SentEvents = <<>>
        /\ GateReturned =>
              /\ Len(SelectSeq(calls, LAMBDA c : c.op = "askQuestion")) = 1
              /\ \/ /\ CalledWith("askQuestion", "telemetry", "true")
                    /\ insight = "on"
                    /\ TrackedEvents = <<trackEvent("on", "cli-telemetry", NoData),
                                         trackEvent("on", "cli-analyze", NoData)>>
                    /\ SentEvents = TrackedEvents
                 \/ /\ CalledWith("askQuestion", "telemetry", "false")
                    /\ insight = "off"
                    /\ TrackedEvents = <<>>

\* the user opted in at the gate
C17_Witness ==
    /\ PromptDue
    /\ GateReturned
    /\ CalledWith("askQuestion", "telemetry", "true")
    /\ Len(SentEvents) = 2

\* C18: when the gate runs under CI with no recorded consent, the CI notice
\* is shown, no prompt is asked, enable and disable are not called and the
\* persisted consent stays unset, and no event ('cli-analyze' included) is
\* tracked by that run's gate.
C18_GateUnderCI ==
    (GateReturned /\ isCI /\ storeAtStart.insight = "unset") =>
        /\ Called("showCITelemetryMessage", "")
        /\ ~Prompted
        /\ ~Called("appInsights.enable", "")
        /\ ~Called("appInsights.disable", "")
        /\ insight = "unset"
        /\ TrackedEvents = <<>>

\* the gate under CI in a run that is not the first one
C18_Witness ==
    /\ GateReturned
    /\ isCI
    /\ storeAtStart.insight = "unset"
    /\ storeAtStart.alreadyRun
    /\ Called("showCITelemetryMessage", "")

\* C19: the scan time handed to format for a target is zero when no start
\* was recorded for it, and else the end time minus its recorded start.
C19_ZeroWithoutStart ==
    formatOptions.target # "" =>
        formatOptions.scanTime =
            IF formatOptions.target \in DOMAIN scanStart
            THEN clock - scanStart[formatOptions.target]
            ELSE 0

Range(f) == {f[x] : x \in DOMAIN f}

\* every string the properties of the tracked event contain
PayloadStrings ==
    LET p == payload.properties IN
    Range(p.browserslist) \cup {p.connector.str, p.connector.name, p.connector.options}
    \cup Range(p.extends) \cup Range(p.formatters) \cup DOMAIN p.hints
    \cup Range(p.hints) \cup {p.language} \cup Range(p.parsers)

\* target urls and paths, and the option values the user wrote
UserSecrets == Urls \cup {"connector-option", "hint-option"}

\* the properties of the tracked event that have a value
CarriedFields ==
    LET p == payload.properties IN
    {"ci", "previouslyRun", "hintsTimeout", "language", "hints"}
    \cup (IF p.browserslist # <<>> THEN {"browserslist"} ELSE {})
    \cup (IF p.connector.type # "undefined" THEN {"connector"} ELSE {})
    \cup (IF p.extends # <<>> THEN {"extends"} ELSE {})
    \cup (IF p.formatters # <<>> THEN {"formatters"} ELSE {})
    \cup (IF p.parsers # <<>> THEN {"parsers"} ELSE {})

ClaimedFields ==
    {"extends", "connector", "formatters", "hints", "hintsTimeout", "language", "parsers"}

NoSecretInPayload == PayloadStrings \cap UserSecrets = {}

\* the connector is sent as its name, the hints as hint id to severity
NamesAndSeverities ==
    LET p == payload.properties IN
    /\ p.connector.type \in {"undefined", "string"}
    /\ p.connector.type = "string" =>
          p.connector.str \in {prunedConfig.connector.str, prunedConfig.connector.name} \ {""}
    /\ DOMAIN p.hints = DOMAIN prunedConfig.hints
    /\ \A id \in DOMAIN p.hints : p.hints[id] \in Severities

C20_HandleMatchesConsent ==
    /\ initialised => (appInsights = "client" <=> storage.telemetry = "true")
    /\ (lastCall.op \in TrackOps /\ (~initialised \/ storage.telemetry # "true"))
          => lastCall.events = <<>>

\* telemetry was enabled and used, then disabled, then a track call was made
C20_Witness ==
    /\ initialised
    /\ storage.telemetry = "false"
    /\ transmitted >= 1
    /\ lastCall = [op |-> "trackStart", events |-> <<>>]

\* C21: over the calls of enable and disable on one store, at most one
\* 'f12-telemetry' event is handed to the client, and only by the first
\* enable; an enable after the first one, so also one after a disable,
\* hands over none; and once enable or disable has been called showOptIn
\* is false.
C21_OptInEventOnce ==
    /\ optIn.events <= 1
    /\ (lastCall.op = "enable" /\ lastCall.events # <<>>) =>
          /\ lastCall.events = <<"f12-telemetry">>
          /\ optIn.enables = 1
    /\ (lastCall.op = "enable" /\ optIn.enables = 2) => lastCall.events = <<>>
    /\ optIn.events = 1 => storage.alreadyOptIn
    /\ (optIn.enables > 0 \/ optIn.disables > 0) => ~showOptIn(storage)

\* the opt-in event was sent, telemetry was disabled, and the enable after
\* it sent nothing
C21_Witness ==
    /\ optIn = [enables |-> 2, disables |-> 1, events |-> 1]
    /\ lastCall = [op |-> "enable", events |-> <<>>]
    /\ storage.telemetry = "true"

\* a step that runs the telemetry gate
GateStep == gateCalls' = gateCalls + 1

\* C22: only a step that runs the telemetry gate changes the first-run
\* marker or the persisted consent, and the marker only from false to true;
\* so as long as the gate of a run has not run, also when the run ended
\* without it (no targets, configuration resolution failed, bootstrap
\* failed, analyze threw), both hold what they held when the run began.
C22_MarkerOnlyByGate ==
    /\ [](gateCalls = 0 =>
            /\ alreadyRun = storeAtStart.alreadyRun
            /\ insight = storeAtStart.insight)
    /\ [][/\ alreadyRun' # alreadyRun => (GateStep /\ ~alreadyRun /\ alreadyRun')
          /\ insight' # insight => GateStep]_vars

\* a first run ended by analyze throwing: the marker is still false
C22_Witness ==
    /\ phase = "done"
    /\ thrown = AnalyzeError
    /\ gateCalls = 0
    /\ ~alreadyRun
    /\ insight = "unset"

SpinnerSucceeded == Called("spinner", "succeed")

\* C23: while a run is analyzing, an exit code of 1 stays 1 and no later
\* step ends the spinner with 'succeed'; the spinner is ended with
\* 'succeed' only when no end event of the run so far, the one being
\* handled included, carried an error-severity problem.
C23_ExitCodeMonotone ==
    /\ [](SpinnerSucceeded => (~errorSeen /\ exitCode = 0))
    /\ [](errorSeen => exitCode = 1)
    /\ [][(phase = "analyzing" /\ exitCode = 1) =>
            /\ exitCode' = 1
            /\ \A i \in 1..Len(calls') : calls'[i] # Call("spinner", "succeed", "")]_vars

\* the second of two targets ends with 'succeed' after a clean first one
C23_Witness ==
    /\ SpinnerSucceeded
    /\ Len(targets) = 2
    /\ \A u \in DOMAIN engine : engine[u] = "ended"
    /\ DOMAIN engine # {}
    /\ ~errorSeen

====
